---------------------------- MODULE Spec2Model ----------------------------
(***************************************************************************)
(* A model of the term statistics engine of tfidf.py (class TFIDF): the    *)
(* per-document term counters, the three mutation calls and the three      *)
(* scoring calls.  Floating-point results are carried as exact rationals   *)
(* and, where the code takes a logarithm, as the term log(<rational>);     *)
(* an exception the Python code raises is an outcome of the call.          *)
(***************************************************************************)
EXTENDS Integers, Sequences, FiniteSets, TLC

VARIABLES doc_word_freq, ret, named, added, calls, pure

vars == <<doc_word_freq, ret, named, added, calls, pure>>

(***************************************************************************)
(* Bounds of the model.                                                    *)
(***************************************************************************)
\* the largest count a (doc, word) entry is driven to
MaxCount == 2
\* the deepest over-removal: counts go down to -MaxNeg
MaxNeg == 1
\* the longest word_list handed to update
MaxLen == 2

Docs == {"d1", "d2"}
Words == {"a", "b"}

RECURSIVE SeqsUpTo(_)
SeqsUpTo(n) ==
    IF n = 0 THEN {<<>>}
    ELSE LET shorter == SeqsUpTo(n - 1)
         IN shorter \cup {Append(s, w) : s \in {x \in shorter : Len(x) = n - 1}, w \in Words}

WordLists == SeqsUpTo(MaxLen)

(***************************************************************************)
(* Python dictionaries and Counters as functions with a finite domain.     *)
(***************************************************************************)
EmptyMap == [x \in {} |-> 0]

Put(f, k, v) == [x \in (DOMAIN f) \cup {k} |-> IF x = k THEN v ELSE f[x]]

\* dict.setdefault(doc_name, Counter()): the record of doc_name, created empty if absent
SetDefault(s, doc_name) == IF doc_name \in DOMAIN s THEN s[doc_name] ELSE EmptyMap

\* Counter.__getitem__: a missing key reads as 0 (and is not inserted)
CounterGet(c, word) == IF word \in DOMAIN c THEN c[word] ELSE 0

\* the count the engine holds for (word, doc_name)
Count(s, word, doc_name) == CounterGet(SetDefault(s, doc_name), word)

\* the (doc, word) entries present in a state or in a score table
Entries(s) == {<<d, w>> \in Docs \X Words : d \in DOMAIN s /\ w \in DOMAIN s[d]}

RECURSIVE SumOver(_, _)
SumOver(f, keys) ==
    IF keys = {} THEN 0
    ELSE LET k == CHOOSE x \in keys : TRUE
         IN f[k] + SumOver(f, keys \ {k})

\* sum(counter.values())
SumValues(f) == SumOver(f, DOMAIN f)

(***************************************************************************)
(* Numbers.  A float is carried as the exact rational [num, den] with      *)
(* den > 0 in lowest terms; math.log(x) is the term [fn |-> "log", ...]    *)
(* and raises ValueError for x <= 0; x / y raises ZeroDivisionError for    *)
(* y = 0.                                                                  *)
(***************************************************************************)
Abs(x) == IF x < 0 THEN -x ELSE x

RECURSIVE GCD(_, _)
GCD(a, b) == IF b = 0 THEN a ELSE GCD(b, a % b)

Rat(n, d) ==
    LET g == GCD(Abs(n), Abs(d))
        sgn == IF d < 0 THEN -1 ELSE 1
    IN [num |-> (sgn * n) \div g, den |-> (sgn * d) \div g]

FromInt(n) == [num |-> n, den |-> 1]
RAdd(x, y) == Rat(x.num * y.den + y.num * x.den, x.den * y.den)
RSub(x, y) == Rat(x.num * y.den - y.num * x.den, x.den * y.den)
RMul(x, y) == Rat(x.num * y.num, x.den * y.den)
\* only used with y # 0: the callers raise ZeroDivisionError first
RDiv(x, y) == Rat(x.num * y.den, x.den * y.num)
IsZero(x) == x.num = 0
IsPositive(x) == x.num > 0
IsNegative(x) == x.num < 0
RGreater(x, y) == x.num * y.den > y.num * x.den

\* math.log(x) for x > 0
Log(x) == [fn |-> "log", arg |-> x]
\* math.log raises ValueError("math domain error") for x <= 0
LogDomainError(x) == ~IsPositive(x)
\* 1 + x and x * y on floats that are not rationals
OnePlus(x) == [fn |-> "add", l |-> FromInt(1), r |-> x]
Times(x, y) == [fn |-> "mul", l |-> x, r |-> y]

\* the kinds of score no call of this module produces: math.log raises instead
NonFinite == {"nan", "inf", "-inf"}
IsRational(x) == DOMAIN x = {"num", "den"}
IsFinite(x) == IF IsRational(x) THEN TRUE ELSE x.fn \notin NonFinite

\* what a scoring call comes to: a table, or the exception it raised
Return(t) == [outcome |-> "table", table |-> t]
Raise(e) == [outcome |-> e, table |-> EmptyMap]

(***************************************************************************)
(* Mutation operations (tfidf.py lines 10-40).                             *)
(***************************************************************************)
\* add_word with "= 1" for "+= 1"
add_word_assign(s, word, doc_name) ==
    Put(s, doc_name, Put(SetDefault(s, doc_name), word, 1))

\* self.doc_word_freq.setdefault(doc_name, Counter())[word] += 1
add_word(s, word, doc_name) ==
    LET word_freq == SetDefault(s, doc_name)
    IN Put(s, doc_name, Put(word_freq, word, CounterGet(word_freq, word) + 1))

\* remove_word that drops an entry whose count is no longer positive
remove_word_prune(s, word, doc_name) ==
    LET word_freq == SetDefault(s, doc_name)
        c == CounterGet(word_freq, word) - 1
    IN IF c > 0 THEN Put(s, doc_name, Put(word_freq, word, c))
       ELSE Put(s, doc_name, [w \in (DOMAIN word_freq) \ {word} |-> word_freq[w]])

\* self.doc_word_freq.setdefault(doc_name, Counter())[word] -= 1
remove_word(s, word, doc_name) ==
    LET word_freq == SetDefault(s, doc_name)
    IN Put(s, doc_name, Put(word_freq, word, CounterGet(word_freq, word) - 1))

\* update over set(word_list): a repeated word is added once
RECURSIVE update_distinct(_, _, _)
update_distinct(s, word_list, doc_name) ==
    IF word_list = <<>> THEN s
    ELSE LET rest == update_distinct(s, Tail(word_list), doc_name)
         IN IF \E i \in 2..Len(word_list) : word_list[i] = Head(word_list) THEN rest
            ELSE add_word(rest, Head(word_list), doc_name)

\* for word in word_list: self.add_word(word, doc_name)
RECURSIVE update(_, _, _)
update(s, word_list, doc_name) ==
    IF word_list = <<>> THEN s
    ELSE update(add_word(s, Head(word_list), doc_name), Tail(word_list), doc_name)

(***************************************************************************)
(* Shared aggregation of the scoring calls.                                *)
(***************************************************************************)
\* a document frequency that counts only the documents holding the word with
\* a positive count
doc_freq_positive(s) ==
    LET seen == UNION {DOMAIN s[d] : d \in DOMAIN s}
    IN [w \in seen |-> Cardinality({d \in DOMAIN s : w \in DOMAIN s[d] /\ s[d][w] > 0})]

\* df = Counter(); for each document: df.update(word_freq.keys())
doc_freq(s) ==
    LET seen == UNION {DOMAIN s[d] : d \in DOMAIN s}
    IN [w \in seen |-> Cardinality({d \in DOMAIN s : w \in DOMAIN s[d]})]

\* doc_len[doc_name] += sum(word_freq.values())
doc_length(s) == [d \in DOMAIN s |-> SumValues(s[d])]

\* idf = {word: log(1 + total_docs / docs) for word, docs in df.items()}
SmoothIdf(df) ==
    LET total_docs == SumValues(df)
    IN IF \E w \in DOMAIN df : df[w] = 0 THEN Raise("ZeroDivisionError")
       ELSE IF \E w \in DOMAIN df :
                  LogDomainError(RAdd(FromInt(1), Rat(total_docs, df[w])))
            THEN Raise("ValueError")
       ELSE Return([w \in DOMAIN df |-> Log(RAdd(FromInt(1), Rat(total_docs, df[w])))])

\* idf = {word: 1.0 / docs for word, docs in df.items()}
NoSmoothingIdf(df) ==
    IF \E w \in DOMAIN df : df[w] = 0 THEN Raise("ZeroDivisionError")
    ELSE Return([w \in DOMAIN df |-> Rat(1, df[w])])

\* idf = {word: max(0.0, log((total_docs - docs) * 1.0 / docs)) ...}
ProbIdf(df) ==
    LET total_docs == SumValues(df)
        arg(w) == Rat(total_docs - df[w], df[w])
    IN IF \E w \in DOMAIN df : df[w] = 0 THEN Raise("ZeroDivisionError")
       ELSE IF \E w \in DOMAIN df : LogDomainError(arg(w)) THEN Raise("ValueError")
       ELSE Return([w \in DOMAIN df |->
                      IF RGreater(arg(w), FromInt(1)) THEN Log(arg(w)) ELSE FromInt(0)])

(***************************************************************************)
(* Scoring operations (tfidf.py lines 42-154): pure functions of the       *)
(* state s.  Each out table has one item per item of every document        *)
(* record: out.setdefault(doc_name, Counter())[word] = <score>.            *)
(***************************************************************************)
\* generate_tfidf whose raw-count branch leaves out the items that score 0
generate_tfidf_nonzero(s, tfidf_type) ==
    LET df == doc_freq(s)
    IN IF tfidf_type = "smooth"
       THEN LET idf == SmoothIdf(df)
            IN IF idf.outcome # "table" THEN idf
               ELSE IF \E d \in DOMAIN s : \E w \in DOMAIN s[d] :
                          LogDomainError(FromInt(s[d][w]))
                    THEN Raise("ValueError")
               ELSE Return([d \in DOMAIN s |-> [w \in DOMAIN s[d] |->
                              Times(OnePlus(Log(FromInt(s[d][w]))), idf.table[w])]])
       ELSE LET idf == NoSmoothingIdf(df)
                kept == {d \in DOMAIN s : \E w \in DOMAIN s[d] : s[d][w] # 0}
            IN IF idf.outcome # "table" THEN idf
               ELSE Return([d \in kept |-> [w \in {x \in DOMAIN s[d] : s[d][x] # 0} |->
                              RMul(FromInt(s[d][w]), idf.table[w])]])

generate_tfidf(s, tfidf_type) ==
    LET df == doc_freq(s)
    IN IF tfidf_type = "smooth"
       THEN LET idf == SmoothIdf(df)
            IN IF idf.outcome # "table" THEN idf
               \* (1 + log(freq)) * idf[word]
               ELSE IF \E d \in DOMAIN s : \E w \in DOMAIN s[d] :
                          LogDomainError(FromInt(s[d][w]))
                    THEN Raise("ValueError")
               ELSE Return([d \in DOMAIN s |-> [w \in DOMAIN s[d] |->
                              Times(OnePlus(Log(FromInt(s[d][w]))), idf.table[w])]])
       ELSE LET idf == NoSmoothingIdf(df)
            IN IF idf.outcome # "table" THEN idf
               \* freq * idf[word]
               ELSE Return([d \in DOMAIN s |-> [w \in DOMAIN s[d] |->
                              RMul(FromInt(s[d][w]), idf.table[w])]])

\* generate_idf whose else branch is the default variant, "prob"
generate_idf_default(s, tfidf_type) ==
    LET df == doc_freq(s)
        idf == IF tfidf_type = "none" THEN NoSmoothingIdf(df)
               ELSE IF tfidf_type = "smooth" THEN SmoothIdf(df)
               ELSE ProbIdf(df)
    IN IF idf.outcome # "table" THEN idf
       ELSE Return([d \in DOMAIN s |-> [w \in DOMAIN s[d] |-> idf.table[w]]])

generate_idf(s, tfidf_type) ==
    LET df == doc_freq(s)
        idf == IF tfidf_type = "prob" THEN ProbIdf(df)
               ELSE IF tfidf_type = "smooth" THEN SmoothIdf(df)
               ELSE NoSmoothingIdf(df)
    IN IF idf.outcome # "table" THEN idf
       ELSE Return([d \in DOMAIN s |-> [w \in DOMAIN s[d] |-> idf.table[w]]])

\* idf = {word: log((total_docs - docs + 0.5) / (docs + 0.5)) ...}
Bm25Idf(df) ==
    LET total_docs == SumValues(df)
        half == Rat(1, 2)
        den(w) == RAdd(FromInt(df[w]), half)
        num(w) == RAdd(FromInt(total_docs - df[w]), half)
    IN IF \E w \in DOMAIN df : IsZero(den(w)) THEN Raise("ZeroDivisionError")
       ELSE IF \E w \in DOMAIN df : LogDomainError(RDiv(num(w), den(w)))
            THEN Raise("ValueError")
       ELSE Return([w \in DOMAIN df |-> Log(RDiv(num(w), den(w)))])

\* freq + k1 * (1 - b + b * doc_len[doc_name] / avg_len), for avg_len # 0
Bm25Denominator(freq, len, avg_len, k1, b) ==
    RAdd(FromInt(freq),
         RMul(k1, RAdd(RSub(FromInt(1), b), RDiv(RMul(b, FromInt(len)), avg_len))))

generate_bm25(s, k1, b, d) ==
    \* no data
    IF Cardinality(DOMAIN s) = 0 THEN Return(EmptyMap)
    ELSE
    LET df == doc_freq(s)
        doc_len == doc_length(s)
        \* avg_len = sum(doc_len.values()) * 1.0 / len(doc_len)
        avg_len == Rat(SumValues(doc_len), Cardinality(DOMAIN doc_len))
        idf == Bm25Idf(df)
        denominator == [doc \in DOMAIN s |-> [w \in DOMAIN s[doc] |->
                          Bm25Denominator(s[doc][w], doc_len[doc], avg_len, k1, b)]]
    IN IF idf.outcome # "table" THEN idf
       \* b * doc_len[doc_name] / avg_len
       ELSE IF Entries(s) # {} /\ IsZero(avg_len) THEN Raise("ZeroDivisionError")
       ELSE IF \E doc \in DOMAIN s : \E w \in DOMAIN s[doc] : IsZero(denominator[doc][w])
            THEN Raise("ZeroDivisionError")
       ELSE Return([doc \in DOMAIN s |-> [w \in DOMAIN s[doc] |->
                      Times(idf.table[w],
                            RAdd(RDiv(RMul(FromInt(s[doc][w]), RAdd(k1, FromInt(1))),
                                      denominator[doc][w]),
                                 d))]])

(***************************************************************************)
(* The engine as a state machine.  doc_word_freq is the engine's state;    *)
(* ret records the last call, its arguments and what it came to; named,    *)
(* added, calls and pure record the history the properties speak of.       *)
(***************************************************************************)
\* the variant strings handed to generate_tfidf and generate_idf
TfidfTypes == {"smooth", "none", "prob", "unknown"}

\* the (k1, b, d) handed to generate_bm25: the defaults 1.2, 0.75, 0.0; BM15
\* with k1 = 1; BM11 with k1 = 2 and d = 1
DefaultParams == [k1 |-> Rat(6, 5), b |-> Rat(3, 4), d |-> FromInt(0)]
Bm25Params == {DefaultParams,
               [k1 |-> FromInt(1), b |-> FromInt(0), d |-> FromInt(0)],
               [k1 |-> FromInt(2), b |-> FromInt(1), d |-> FromInt(1)]}

MutationOps == {"add_word", "remove_word", "update"}
ScoringOps == {"generate_tfidf", "generate_idf", "generate_bm25"}

\* before: the count of (word, doc) when an add_word was called; first: that
\* add_word was the first for its document; undo: a remove_word came right
\* after an add_word of the same pair, whose before it then carries
NoCall == [op |-> "init", word |-> "", doc |-> "",
           tfidf_type |-> "", params |-> DefaultParams, before |-> 0,
           first |-> FALSE, undo |-> FALSE, outcome |-> "None", table |-> EmptyMap]

\* a scoring call and what it came to
Scored(op, tfidf_type, params, result) ==
    [NoCall EXCEPT !.op = op, !.tfidf_type = tfidf_type, !.params = params,
                   !.outcome = result.outcome, !.table = result.table]

NoCalls == [e \in Docs \X Words |-> 0]

Occurrences(word_list, w) == Cardinality({i \in 1..Len(word_list) : word_list[i] = w})

Init ==
    \* self.doc_word_freq = dict()
    /\ doc_word_freq = EmptyMap
    /\ ret = NoCall
    /\ named = {}
    /\ added = {}
    /\ calls = NoCalls
    /\ pure = TRUE

AddWord(word, doc_name) ==
    /\ Count(doc_word_freq, word, doc_name) < MaxCount
    /\ doc_word_freq' = add_word(doc_word_freq, word, doc_name)
    /\ ret' = [NoCall EXCEPT !.op = "add_word", !.word = word, !.doc = doc_name,
                             !.before = Count(doc_word_freq, word, doc_name),
                             !.first = doc_name \notin added]
    /\ named' = named \cup {doc_name}
    /\ added' = added \cup {doc_name}
    /\ calls' = IF pure THEN [calls EXCEPT ![<<doc_name, word>>] = @ + 1] ELSE calls
    /\ UNCHANGED pure

RemoveWord(word, doc_name) ==
    /\ Count(doc_word_freq, word, doc_name) > -MaxNeg
    /\ doc_word_freq' = remove_word(doc_word_freq, word, doc_name)
    /\ LET undo == ret.op = "add_word" /\ ret.word = word /\ ret.doc = doc_name
       IN ret' = [NoCall EXCEPT !.op = "remove_word", !.word = word, !.doc = doc_name,
                                !.undo = undo,
                                !.before = IF undo THEN ret.before ELSE 0]
    /\ named' = named \cup {doc_name}
    /\ pure' = FALSE
    /\ calls' = NoCalls
    /\ UNCHANGED added

Update(word_list, doc_name) ==
    /\ \A w \in Words :
          Count(doc_word_freq, w, doc_name) + Occurrences(word_list, w) <= MaxCount
    /\ doc_word_freq' = update(doc_word_freq, word_list, doc_name)
    /\ ret' = [NoCall EXCEPT !.op = "update", !.doc = doc_name]
    /\ named' = named \cup {doc_name}
    /\ added' = IF word_list = <<>> THEN added ELSE added \cup {doc_name}
    /\ calls' = IF pure
                THEN [e \in Docs \X Words |->
                        IF e[1] = doc_name THEN calls[e] + Occurrences(word_list, e[2])
                        ELSE calls[e]]
                ELSE calls
    /\ UNCHANGED pure

GenerateTfidf(tfidf_type) ==
    /\ ret' = Scored("generate_tfidf", tfidf_type, DefaultParams,
                     generate_tfidf(doc_word_freq, tfidf_type))
    /\ UNCHANGED <<doc_word_freq, named, added, calls, pure>>

GenerateIdf(tfidf_type) ==
    /\ ret' = Scored("generate_idf", tfidf_type, DefaultParams,
                     generate_idf(doc_word_freq, tfidf_type))
    /\ UNCHANGED <<doc_word_freq, named, added, calls, pure>>

\* generate_bm25 that drops the items without a positive count from the
\* engine's records as it sums the document lengths
GenerateBm25Pruning(params) ==
    /\ ret' = Scored("generate_bm25", "", params,
                     generate_bm25(doc_word_freq, params.k1, params.b, params.d))
    /\ doc_word_freq' = [d \in DOMAIN doc_word_freq |->
                           [w \in {x \in DOMAIN doc_word_freq[d] : doc_word_freq[d][x] > 0}
                              |-> doc_word_freq[d][w]]]
    /\ UNCHANGED <<named, added, calls, pure>>

GenerateBm25(params) ==
    /\ ret' = Scored("generate_bm25", "", params,
                     generate_bm25(doc_word_freq, params.k1, params.b, params.d))
    /\ UNCHANGED <<doc_word_freq, named, added, calls, pure>>

Next ==
    \/ \E word \in Words, doc_name \in Docs : AddWord(word, doc_name)
    \/ \E word \in Words, doc_name \in Docs : RemoveWord(word, doc_name)
    \/ \E word_list \in WordLists, doc_name \in Docs : Update(word_list, doc_name)
    \/ \E tfidf_type \in TfidfTypes : GenerateTfidf(tfidf_type)
    \/ \E tfidf_type \in TfidfTypes : GenerateIdf(tfidf_type)
    \/ \E params \in Bm25Params : GenerateBm25(params)

Spec == Init /\ [][Next]_vars

(***************************************************************************)
(* Properties.                                                             *)
(***************************************************************************)
\* what the call recorded in c returns when made in state s
Replay(c, s) ==
    Scored(c.op, c.tfidf_type, c.params,
           IF c.op = "generate_tfidf" THEN generate_tfidf(s, c.tfidf_type)
           ELSE IF c.op = "generate_idf" THEN generate_idf(s, c.tfidf_type)
           ELSE generate_bm25(s, c.params.k1, c.params.b, c.params.d))

\* the three scoring calls with their default arguments
DefaultResults(s) ==
    {generate_tfidf(s, "smooth"), generate_idf(s, "prob"),
     generate_bm25(s, DefaultParams.k1, DefaultParams.b, DefaultParams.d)}

\* every scoring call of the model
AllResults(s) ==
    {generate_tfidf(s, t) : t \in TfidfTypes} \cup {generate_idf(s, t) : t \in TfidfTypes}
        \cup {generate_bm25(s, p.k1, p.b, p.d) : p \in Bm25Params}

NonPositive(s) == {e \in Entries(s) : s[e[1]][e[2]] <= 0}

\* C1: every scoring call completes and returns a table; it never raises.
C1_NeverRaises == ret.op \in ScoringOps => ret.outcome = "table"

\* C2: a document never named in a mutation call is a key of no scoring table,
\* and right after the first add_word(t, d) the document d is a key of the
\* table each scoring call returns with its default arguments.
C2_LazyCreation ==
    /\ \A d \in Docs \ named : \A r \in AllResults(doc_word_freq) : d \notin DOMAIN r.table
    /\ (ret.op = "add_word" /\ ret.first) =>
          \A r \in DefaultResults(doc_word_freq) :
             r.outcome = "table" /\ ret.doc \in DOMAIN r.table

\* C3: add_word(t, d) followed immediately by remove_word(t, d) leaves the
\* count of (t, d) what it was before the add_word.
C3_AddRemoveInverse ==
    (ret.op = "remove_word" /\ ret.undo) =>
        Count(doc_word_freq, ret.word, ret.doc) = ret.before

\* C3 witness: an add_word of a pair counted once, undone by a remove_word
C3_Witness ==
    /\ ret.op = "remove_word" /\ ret.undo /\ ret.before = 1
    /\ Cardinality(Entries(doc_word_freq)) > 1

\* C4: from the empty engine, after add_word calls only (direct or through
\* update), in any order, every count is the number of add_word calls that
\* named its pair.
C4_AccumulationCommutes ==
    pure => \A e \in Docs \X Words : Count(doc_word_freq, e[2], e[1]) = calls[e]

\* C4 witness: an update ends a run of adds that counted one pair twice and
\* two other pairs in between
C4_Witness ==
    /\ pure /\ ret.op = "update"
    /\ \E e \in Docs \X Words : calls[e] = 2
    /\ Cardinality({e \in Docs \X Words : calls[e] > 0}) >= 3

\* C5: a scoring call leaves the engine state as it was, and the table it
\* returned is the table the same call returns when made again.
C5_ScoringIsRead ==
    [][ret'.op \in ScoringOps =>
          /\ doc_word_freq' = doc_word_freq
          /\ ret' = Replay(ret', doc_word_freq')]_vars

\* C5 witness: generate_bm25 returned a table over records that hold a
\* count that is not positive
C5_Witness ==
    /\ ret.op = "generate_bm25" /\ ret.outcome = "table"
    /\ NonPositive(doc_word_freq) # {}

\* C6: with a stored count of -1, generate_tfidf("smooth") returns a table
\* whose score for the pair is non-finite and generate_tfidf("none") a table
\* whose score for it is finite and negative.
C6_NegativeFrequency ==
    ret.op = "generate_tfidf" =>
        \A e \in Entries(doc_word_freq) : doc_word_freq[e[1]][e[2]] = -1 =>
            /\ ret.tfidf_type = "smooth" =>
                  ret.outcome = "table" /\ ~IsFinite(ret.table[e[1]][e[2]])
            /\ ret.tfidf_type = "none" =>
                  /\ ret.outcome = "table"
                  /\ IsFinite(ret.table[e[1]][e[2]])
                  /\ IsNegative(ret.table[e[1]][e[2]])

\* C7: the (doc, term) keys of a table a scoring call returns are exactly the
\* (doc, term) entries of the engine state, whatever their counts.
C7_OutputCoverage ==
    (ret.op \in ScoringOps /\ ret.outcome = "table") =>
        Entries(ret.table) = Entries(doc_word_freq)

\* C7 witness: generate_tfidf("none") returned a table over a state with a
\* zero count and a negative count
C7_Witness ==
    /\ ret.op = "generate_tfidf" /\ ret.tfidf_type = "none" /\ ret.outcome = "table"
    /\ \E e \in Entries(doc_word_freq) : doc_word_freq[e[1]][e[2]] = 0
    /\ \E e \in Entries(doc_word_freq) : doc_word_freq[e[1]][e[2]] < 0

\* C8: generate_tfidf with a variant other than "smooth" returns what
\* generate_tfidf("none") returns, generate_idf with a variant other than
\* "prob" and "smooth" what generate_idf("none") returns, and each returns a
\* table.
C8_VariantFallback ==
    /\ (ret.op = "generate_tfidf" /\ ret.tfidf_type # "smooth") =>
          /\ ret.outcome = "table"
          /\ ret = Scored("generate_tfidf", ret.tfidf_type, DefaultParams,
                          generate_tfidf(doc_word_freq, "none"))
    /\ (ret.op = "generate_idf" /\ ret.tfidf_type \notin {"prob", "smooth"}) =>
          /\ ret.outcome = "table"
          /\ ret = Scored("generate_idf", ret.tfidf_type, DefaultParams,
                          generate_idf(doc_word_freq, "none"))

\* C8 witness: generate_idf("unknown") over a state where the "prob" variant
\* raises
C8_Witness ==
    /\ ret.op = "generate_idf" /\ ret.tfidf_type = "unknown"
    /\ Entries(doc_word_freq) # {}
    /\ generate_idf(doc_word_freq, "prob").outcome # "table"

\* C9: the document frequency of every term with an entry in a document
\* record is at least 1, and generate_tfidf and generate_idf never divide by
\* zero.
C9_DocFreqPositive ==
    /\ \A e \in Entries(doc_word_freq) :
          e[2] \in DOMAIN doc_freq(doc_word_freq) /\ doc_freq(doc_word_freq)[e[2]] >= 1
    /\ ret.op \in {"generate_tfidf", "generate_idf"} => ret.outcome # "ZeroDivisionError"

\* C9 witness: a scoring call over a state where a term has no positive count
\* in any document
C9_Witness ==
    /\ ret.op \in {"generate_tfidf", "generate_idf"}
    /\ \E w \in Words :
          /\ \E d \in Docs : <<d, w>> \in Entries(doc_word_freq)
          /\ \A d \in Docs : Count(doc_word_freq, w, d) <= 0

\* C10: no call removes a (doc, term) entry, and every document record holds
\* at least one term entry.
C10_EntriesNeverShrink ==
    [][/\ Entries(doc_word_freq) \subseteq Entries(doc_word_freq')
       /\ \A d \in DOMAIN doc_word_freq' : DOMAIN doc_word_freq'[d] # {}]_vars

\* C10 witness: a remove_word brought a count to zero or below and the entry
\* is still there
C10_Witness ==
    /\ ret.op = "remove_word"
    /\ <<ret.doc, ret.word>> \in Entries(doc_word_freq)
    /\ doc_word_freq[ret.doc][ret.word] <= 0

=============================================================================
